---- MODULE Spec2Model ----
(***************************************************************************)
(* Model of the library-catalog client: the Book Detail add-to-list flow   *)
(* (src/pages/BookDetail.tsx), the Reading List Manager                    *)
(* (pages/ReadingLists.tsx), the API client (src/services/api.ts), the     *)
(* auth context (src/contexts/AuthContext.tsx), whose handlers take one    *)
(* step per await, and the account verification form                       *)
(* (src/pages/Verify.tsx).                                                 *)
(*                                                                         *)
(* Each React component is a record variable holding its useState fields.  *)
(* An async handler is split at its await: the part before the await is    *)
(* one action that appends a continuation (with the values its closure     *)
(* captured) to pending, the part after the await is a second action that  *)
(* removes it.  Timers of one page complete in the order they fall due,    *)
(* network calls in any order.                                             *)
(***************************************************************************)
EXTENDS Integers, Sequences, FiniteSets, TLC

VARIABLES
    bd,                 \* BookDetail component state
    rl,                 \* ReadingLists component state
    pending,            \* the in-flight calls of the handlers, timers in the order they were set
    mockReadingLists,   \* the collection the mock getReadingLists resolves with
    alertMsg,           \* text of the prompt the last step raised, "" if it raised none
    server,             \* the reading-lists backend: how many lists it has created
    api,                \* the last API client call: its inputs, requests and result
    auth,               \* AuthProvider: identity session and derived user
    vf                  \* Verify component state

vars == <<bd, rl, pending, mockReadingLists, alertMsg, server, api, auth, vf>>

-----------------------------------------------------------------------------
(* Bounds *)

MaxMockLists == 2       \* entries of mockReadingLists on the Book Detail page
MaxManagerLists == 2    \* lists of the Reading Lists page, fetched and created together
MaxMockBooks == 1       \* book identifiers in the first entry of mockReadingLists
MaxInFlight == 2        \* continuations in flight beyond which no handler starts another
MaxGroups == 2          \* elements of an array-valued groups claim
MaxClaimLen == 3        \* characters of a string-valued groups claim
MaxAuthCalls == 2       \* calls of login and logout in flight beyond which neither is called again

-----------------------------------------------------------------------------
(* JavaScript values *)

\* A JS string is a sequence of one-character strings.
RECURSIVE TrimStart(_)
TrimStart(s) ==
    IF s # <<>> /\ Head(s) = " " THEN TrimStart(Tail(s)) ELSE s

RECURSIVE TrimEnd(_)
TrimEnd(s) ==
    IF s # <<>> /\ s[Len(s)] = " " THEN TrimEnd(SubSeq(s, 1, Len(s) - 1)) ELSE s

\* String.prototype.trim
Trim(s) == TrimEnd(TrimStart(s))

\* A book identifier as it arrives in JSON: <<"number", d>> or <<"string", d>>,
\* d the decimal text.  String(v) keeps the text and makes the kind "string".
ToJSString(v) == <<"string", v[2]>>

\* Array.prototype.map
MapSeq(s, F(_)) == [i \in 1..Len(s) |-> F(s[i])]

\* Array.prototype.includes (strict equality on kind and text)
Includes(s, v) == \E i \in 1..Len(s) : s[i] = v

\* Array.prototype.find: index of the first match, 0 if none
FindIndex(s, P(_)) ==
    IF \E i \in 1..Len(s) : P(s[i])
    THEN CHOOSE i \in 1..Len(s) : P(s[i]) /\ \A j \in 1..(i - 1) : ~P(s[j])
    ELSE 0


-----------------------------------------------------------------------------
(* Promises *)

\* the continuations that wait for a promise to settle
InFlight == {pending[i] : i \in 1..Len(pending)}

\* setTimeout(resolve, ms) of the mock calls of api.ts (getReadingLists 238,
\* updateReadingList 311-320, deleteReadingList 331); 0 for a call that
\* resolves when the network answers (getBook, createReadingList)
Delay(p) ==
    CASE p.k \in {"loadReadingLists", "loadLists", "updateReadingList"} -> 500
      [] p.k = "deleteReadingList" -> 300
      [] OTHER -> 0

\* the place in pending of the call that was started first among those equal to p
FirstIndex(p) == CHOOSE i \in 1..Len(pending) :
                    pending[i] = p /\ \A j \in 1..(i - 1) : pending[j] # p

\* the page whose handler made the call; a page runs in a browser window
\* of its own, with its own timers
Window(p) ==
    IF p.k \in {"loadBook", "loadReadingLists"} THEN "BookDetail"
    ELSE IF p.k = "updateReadingList" THEN p.from
    ELSE IF p.k \in {"confirmSignUp", "resendSignUpCode"} THEN "Verify"
    ELSE "ReadingLists"

\* a timer fires after every timer that was set before it in the same window
\* with a delay that is not longer; the network answers in any order
CanSettle(p) ==
    /\ p \in InFlight
    /\ Delay(p) > 0 =>
          \A j \in 1..(FirstIndex(p) - 1) :
              (Delay(pending[j]) > 0 /\ Window(pending[j]) = Window(p))
                  => Delay(pending[j]) > Delay(p)

\* the handlers of a page start a call only below the bound on its calls in flight
HasRoom(w) ==
    Cardinality({i \in 1..Len(pending) : Window(pending[i]) = w}) < MaxInFlight

\* a handler reaches its await: the timers are kept in the order they were
\* set, the network calls, whose order decides nothing, ahead of them
Start(p) == IF Delay(p) = 0 THEN <<p>> \o pending ELSE Append(pending, p)

\* the promise settles and the continuation runs
Settle(p) ==
    LET i == FirstIndex(p) IN SubSeq(pending, 1, i - 1) \o SubSeq(pending, i + 1, Len(pending))

\* how many createReadingList requests are in flight
CreatesInFlight ==
    Cardinality({i \in 1..Len(pending) : pending[i].k = "createReadingList"})

-----------------------------------------------------------------------------
(* Reading lists *)

NotArray == [isArray |-> FALSE, items |-> <<>>]
ArrayOf(s) == [isArray |-> TRUE, items |-> s]

MkList(id, name, description, bookIds, createdAt, updatedAt) ==
    [id |-> id, name |-> name, description |-> description, bookIds |-> bookIds,
     createdAt |-> createdAt, updatedAt |-> updatedAt]

\* new Date().toISOString() of a call made after the page was loaded
Now == "t1"

-----------------------------------------------------------------------------
(* API client, src/services/api.ts *)

\* Outcomes of fetchAuthSession(): it rejects, or resolves with a session
\* without tokens, without an id token, with an empty or with a real id token.
SessionStates == {"rejects", "noTokens", "noIdToken", "emptyToken", "token"}

\* session.tokens?.idToken?.toString(), "" standing for undefined as well
TokenOf(sess) == IF sess = "token" THEN "jwt" ELSE ""

NoAuthorization == <<>>

getAuthHeaders(sess) ==
    [contentType |-> "application/json",
     authorization |-> IF sess # "rejects" /\ TokenOf(sess) # ""
                       THEN <<"Bearer", TokenOf(sess)>>
                       ELSE NoAuthorization]

\* fetch(url) without an init object: no headers are sent
NoHeaders == [contentType |-> "", authorization |-> NoAuthorization]

Request(method, base, path, id, headers) ==
    [id |-> id, method |-> method, base |-> base, path |-> path, headers |-> headers]

\* response.ok
Ok(resp) == resp.status \in 200..299

JSNull == <<"null", "">>

Return(reqs, v) == [requests |-> reqs, outcome |-> "return", value |-> v, error |-> ""]
Throw(reqs, msg) == [requests |-> reqs, outcome |-> "throw", value |-> JSNull, error |-> msg]

\* response.json(): the parsed body, <<"invalid", "">> when parsing rejects
Json(resp, id) ==
    CASE resp.body = "bookStr" -> <<"book", <<"string", id>>>>
      [] resp.body = "bookNum" -> <<"book", <<"number", id>>>>
      [] resp.body = "null" -> JSNull
      [] OTHER -> <<"invalid", "">>

\* response.json() of an answer that is not a single book
JsonAny(resp) ==
    CASE resp.body = "null" -> JSNull
      [] resp.body = "invalid" -> <<"invalid", "">>
      [] OTHER -> <<"json", "">>

\* first declaration of getBooks: no headers
getBooks_first(resp) ==
    LET req == Request("GET", "API_BASE_URL", "books", "", NoHeaders) IN
    IF ~Ok(resp) THEN Throw(<<req>>, "Failed to fetch books")
    ELSE IF JsonAny(resp)[1] = "invalid" THEN Throw(<<req>>, "SyntaxError")
    ELSE Return(<<req>>, JsonAny(resp))

\* first declaration of getBook: every failure is caught and becomes null
getBook_first(id, resp) ==
    IF id = "" THEN Return(<<>>, JSNull)
    ELSE LET req == Request("GET", "/api", "books", id, NoHeaders) IN
         IF Json(resp, id)[1] = "invalid" THEN Return(<<req>>, JSNull)
         ELSE IF ~Ok(resp) THEN Return(<<req>>, JSNull)
         ELSE Return(<<req>>, Json(resp, id))

\* second declaration of getBooks
getBooks(sess, resp) ==
    LET req == Request("GET", "API_BASE_URL", "books", "", getAuthHeaders(sess)) IN
    IF ~Ok(resp) THEN Throw(<<req>>, "Failed to fetch books")
    ELSE IF JsonAny(resp)[1] = "invalid" THEN Throw(<<req>>, "SyntaxError")
    ELSE Return(<<req>>, JsonAny(resp))

\* second declaration of getBook without its line 430
getBook_no404(id, sess, resp) ==
    IF id = "" THEN Return(<<>>, JSNull)
    ELSE LET req == Request("GET", "API_BASE_URL", "books", id, getAuthHeaders(sess)) IN
         IF ~Ok(resp) THEN Throw(<<req>>, "Failed to fetch book")
         ELSE IF Json(resp, id)[1] = "invalid" THEN Throw(<<req>>, "SyntaxError")
         ELSE Return(<<req>>, Json(resp, id))

\* second declaration of getBook

getBook(id, sess, resp) ==
    IF id = "" THEN Return(<<>>, JSNull)
    ELSE LET req == Request("GET", "API_BASE_URL", "books", id, getAuthHeaders(sess)) IN
         IF resp.status = 404 THEN Return(<<req>>, JSNull)
         ELSE IF ~Ok(resp) THEN Throw(<<req>>, "Failed to fetch book")
         ELSE IF Json(resp, id)[1] = "invalid" THEN Throw(<<req>>, "SyntaxError")
         ELSE Return(<<req>>, Json(resp, id))

createBook(sess, resp) ==
    LET req == Request("POST", "API_BASE_URL", "books", "", getAuthHeaders(sess)) IN
    IF ~Ok(resp) THEN Throw(<<req>>, "Failed to create book")
    ELSE IF JsonAny(resp)[1] = "invalid" THEN Throw(<<req>>, "SyntaxError")
    ELSE Return(<<req>>, JsonAny(resp))

updateBook(id, sess, resp) ==
    LET req == Request("PUT", "API_BASE_URL", "books", id, getAuthHeaders(sess)) IN
    IF ~Ok(resp) THEN Throw(<<req>>, "Failed to update book")
    ELSE IF JsonAny(resp)[1] = "invalid" THEN Throw(<<req>>, "SyntaxError")
    ELSE Return(<<req>>, JsonAny(resp))

deleteBook(id, sess, resp) ==
    LET req == Request("DELETE", "API_BASE_URL", "books", id, getAuthHeaders(sess)) IN
    IF ~Ok(resp) THEN Throw(<<req>>, "Failed to delete book")
    ELSE Return(<<req>>, <<"undefined", "">>)

\* returns data.recommendations, which throws when data is null
getRecommendations(sess, resp) ==
    LET req == Request("POST", "API_BASE_URL", "recommendations", "", getAuthHeaders(sess)) IN
    IF ~Ok(resp) THEN Throw(<<req>>, "Failed to get recommendations")
    ELSE IF JsonAny(resp)[1] = "invalid" THEN Throw(<<req>>, "SyntaxError")
    ELSE IF JsonAny(resp) = JSNull THEN Throw(<<req>>, "TypeError")
    ELSE Return(<<req>>, JsonAny(resp))

\* mock: resolves with mockReadingLists
getReadingLists(mock) == mock

\* a field that is absent from an object
UndefinedStr == <<"undefined">>
UndefinedList == MkList("", UndefinedStr, UndefinedStr, NotArray, "undefined", "undefined")

Has(list, field) == field \in DOMAIN list

\* POST /reading-lists (lines 598-611): returns response.json(), whatever the
\* body parses to; with the body "list" the backend answers with the complete
\* list, with a generated id and timestamps
createReadingList(list, sess, resp, newId) ==
    LET req == Request("POST", "API_BASE_URL", "reading-lists", "", getAuthHeaders(sess)) IN
    IF ~Ok(resp) THEN Throw(<<req>>, "Failed to create reading list")
    ELSE IF JsonAny(resp)[1] = "invalid" THEN Throw(<<req>>, "SyntaxError")
    ELSE IF resp.body = "list"
    THEN Return(<<req>>,
            MkList(newId, list.name, list.description, ArrayOf(list.bookIds), Now, Now))
    ELSE Return(<<req>>, JsonAny(resp))

\* the submitted identifiers added to the stored ones instead of replacing them
updateReadingList_merge(mock, id, list) ==
    LET k == FindIndex(mock, LAMBDA l : l.id = id)
        existingList == IF k = 0 THEN UndefinedList ELSE mock[k]
    IN  [id |-> id,
         name |-> IF Has(list, "name") THEN list.name ELSE existingList.name,
         description |-> IF Has(list, "description") THEN list.description
                         ELSE existingList.description,
         bookIds |-> IF Has(list, "bookIds")
                     THEN ArrayOf(existingList.bookIds.items \o list.bookIds)
                     ELSE existingList.bookIds,
         createdAt |-> existingList.createdAt,
         updatedAt |-> Now]

\* mock: the entry of mockReadingLists with this id (nothing when there is
\* none), overlaid with the submitted fields, the id and a new updatedAt
updateReadingList(mock, id, list) ==
    LET k == FindIndex(mock, LAMBDA l : l.id = id)
        existingList == IF k = 0 THEN UndefinedList ELSE mock[k]
    IN  [id |-> id,
         name |-> IF Has(list, "name") THEN list.name ELSE existingList.name,
         description |-> IF Has(list, "description") THEN list.description
                         ELSE existingList.description,
         bookIds |-> IF Has(list, "bookIds") THEN ArrayOf(list.bookIds)
                     ELSE existingList.bookIds,
         createdAt |-> existingList.createdAt,
         updatedAt |-> Now]

-----------------------------------------------------------------------------
(* Inputs *)

ListIds == <<"L1", "L2", "L3", "L4">>
RouteIds == {"1", "2"}
BookIdValues == {<<"number", "1">>, <<"string", "1">>, <<"string", "2">>}
Statuses == {200, 404, 500}
BookBodies == {"bookStr", "bookNum", "null", "invalid"}
BookResponses == [status : Statuses, body : BookBodies]

SeqsUpTo(S, n) == UNION {[1..k -> S] : k \in 0..n}

\* what a reading list's bookIds field can hold: an array of at most n
\* identifiers, or something that is not an array
BookIdsValues(n) == {NotArray} \cup {ArrayOf(s) : s \in SeqsUpTo(BookIdValues, n)}

-----------------------------------------------------------------------------
(* Book Detail page, src/pages/BookDetail.tsx *)

NoBook == [id |-> <<"undefined", "">>, present |-> FALSE]
BookOf(v) == [id |-> v[2], present |-> TRUE]

\* the component before it is mounted and after it is unmounted
BDIdle ==
    [id |-> "", book |-> NoBook, isLoading |-> TRUE, readingLists |-> <<>>,
     isListsLoading |-> FALSE, isAddModalOpen |-> FALSE, selectedListId |-> "",
     isAdding |-> FALSE, mounted |-> FALSE]

\* the page body is rendered only once the book is loaded (lines 124-134)
Rendered == bd.mounted /\ ~bd.isLoading /\ bd.book.present

\* the Add button of the modal is shown and enabled (lines 260-294)
ConfirmEnabled ==
    /\ Rendered /\ bd.isAddModalOpen /\ ~bd.isListsLoading
    /\ Len(bd.readingLists) > 0
    /\ ~bd.isAdding /\ bd.selectedListId # ""

\* state updates of an unmounted component are dropped
SetBD(new) == IF bd.mounted THEN new ELSE bd

\* line 98 without map(String)
currentIds_raw(target) ==
    IF target.bookIds.isArray THEN target.bookIds.items ELSE <<>>

\* line 98
currentIds(target) ==
    IF target.bookIds.isArray THEN MapSeq(target.bookIds.items, ToJSString) ELSE <<>>

\* line 99 without String()
alreadyInList_raw(ids, book) == Includes(ids, book.id)

\* line 99
alreadyInList(ids, book) == Includes(ids, ToJSString(book.id))

\* line 107 without String()
nextBookIds_raw(ids, book) == ids \o <<book.id>>

\* line 107
nextBookIds(ids, book) == ids \o <<ToJSString(book.id)>>

\* line 91: index of the selected list in the mirror, 0 if it is not there
targetIndex == FindIndex(bd.readingLists, LAMBDA l : l.id = bd.selectedListId)

\* lines 111-113 with filter in place of map
addToMirror_filter(prev, listId, ids) == SelectSeq(prev, LAMBDA l : l.id # listId)

\* lines 111-113
addToMirror(prev, listId, ids) ==
    [i \in 1..Len(prev) |->
        IF prev[i].id = listId THEN [prev[i] EXCEPT !.bookIds = ArrayOf(ids)] ELSE prev[i]]

\* useEffect on [id] and loadBook up to its await (lines 30-45)
BD_Navigate(r) ==
    /\ bd.mounted /\ r # bd.id
    /\ HasRoom("BookDetail")
    /\ bd' = [bd EXCEPT !.id = r, !.isLoading = TRUE]
    /\ pending' = Start( [k |-> "loadBook", bookId |-> r])
    /\ alertMsg' = ""
    /\ UNCHANGED <<rl, mockReadingLists, server, api, auth, vf>>

\* the Back button (lines 139-141): navigate(-1) leaves the page for the one
\* before it, which unmounts the component; its calls in flight stay
BD_Back ==
    /\ Rendered
    /\ bd' = BDIdle
    /\ alertMsg' = ""
    /\ UNCHANGED <<rl, pending, mockReadingLists, server, api, auth, vf>>

\* what getBook can settle with: either declaration of api.ts, any session
\* and any answer of the backend
\* what the awaiting caller sees of a call: the value it resolves with or the
\* error it rejects with
Settled(res) == [outcome |-> res.outcome, value |-> res.value, error |-> res.error]

BookFetchTable ==
    [r \in RouteIds |->
        {Settled(getBook(r, sess, resp)) : sess \in SessionStates, resp \in BookResponses}
            \cup {Settled(getBook_first(r, resp)) : resp \in BookResponses}]

BookFetchResults(bookId) == BookFetchTable[bookId]

\* lines 46-54 with the page kept when the book is absent
loadBookSettled_stay(res) ==
    IF res.outcome = "throw"
    THEN /\ bd' = SetBD([bd EXCEPT !.isLoading = FALSE])
         /\ alertMsg' = res.error
    ELSE IF res.value = JSNull
    THEN /\ bd' = SetBD([bd EXCEPT !.isLoading = FALSE])
         /\ alertMsg' = ""
    ELSE /\ bd' = SetBD([bd EXCEPT !.book = BookOf(res.value), !.isLoading = FALSE])
         /\ alertMsg' = ""

\* what loadBook does with the outcome of getBook (lines 46-54): navigate
\* to the not-found view unmounts the page
loadBookSettled(res) ==
    IF res.outcome = "throw"
    THEN /\ bd' = SetBD([bd EXCEPT !.isLoading = FALSE])
         /\ alertMsg' = res.error
    ELSE IF res.value = JSNull
    THEN /\ bd' = SetBD(BDIdle)
         /\ alertMsg' = ""
    ELSE /\ bd' = SetBD([bd EXCEPT !.book = BookOf(res.value), !.isLoading = FALSE])
         /\ alertMsg' = ""

\* loadBook after its await, with the answers for a route that is no longer
\* the current one dropped
BD_LoadBookDone_current(p) ==
    /\ CanSettle(p) /\ p.k = "loadBook"
    /\ pending' = Settle(p)
    /\ \E res \in BookFetchResults(p.bookId) :
         IF p.bookId # bd.id
         THEN /\ bd' = bd
              /\ alertMsg' = ""
         ELSE IF res.outcome = "throw"
         THEN /\ bd' = SetBD([bd EXCEPT !.isLoading = FALSE])
              /\ alertMsg' = res.error
         ELSE IF res.value = JSNull
         THEN /\ bd' = SetBD(BDIdle)
              /\ alertMsg' = ""
         ELSE /\ bd' = SetBD([bd EXCEPT !.book = BookOf(res.value), !.isLoading = FALSE])
              /\ alertMsg' = ""
    /\ UNCHANGED <<rl, mockReadingLists, server, api, auth, vf>>

\* loadBook after its await (lines 45-55)
BD_LoadBookDone(p) ==
    /\ CanSettle(p) /\ p.k = "loadBook"
    /\ pending' = Settle(p)
    /\ \E res \in BookFetchResults(p.bookId) : loadBookSettled(res)
    /\ UNCHANGED <<rl, mockReadingLists, server, api, auth, vf>>

\* handleAddToList with the modal opened before the lists are fetched
BD_HandleAddToList_eager ==
    /\ Rendered
    /\ HasRoom("BookDetail")
    /\ bd' = [bd EXCEPT !.isListsLoading = TRUE, !.isAddModalOpen = TRUE]
    /\ pending' = Start( [k |-> "loadReadingLists", openModal |-> TRUE])
    /\ alertMsg' = ""
    /\ UNCHANGED <<rl, mockReadingLists, server, api, auth, vf>>

\* handleAddToList up to the await inside loadReadingLists (lines 77-79, 58-61)
BD_HandleAddToList ==
    /\ Rendered
    /\ HasRoom("BookDetail")
    /\ bd' = [bd EXCEPT !.isListsLoading = TRUE]
    /\ pending' = Start( [k |-> "loadReadingLists", openModal |-> TRUE])
    /\ alertMsg' = ""
    /\ UNCHANGED <<rl, mockReadingLists, server, api, auth, vf>>

\* loadReadingLists after its await, with a selection that is still in the
\* fetched collection kept
BD_LoadReadingListsDone_keep(p) ==
    /\ CanSettle(p) /\ p.k = "loadReadingLists"
    /\ pending' = Settle(p)
    /\ LET lists == getReadingLists(mockReadingLists) IN
       bd' = SetBD([bd EXCEPT
                !.readingLists = lists,
                !.selectedListId =
                    IF \E k \in 1..Len(lists) : lists[k].id = @ THEN @
                    ELSE IF Len(lists) > 0 THEN lists[1].id ELSE "",
                !.isListsLoading = FALSE,
                !.isAddModalOpen = IF p.openModal THEN TRUE ELSE @])
    /\ alertMsg' = ""
    /\ UNCHANGED <<rl, mockReadingLists, server, api, auth, vf>>

\* loadReadingLists after its await, then the rest of handleAddToList
\* (lines 61-74, 80); getReadingLists resolves with mockReadingLists
BD_LoadReadingListsDone(p) ==
    /\ CanSettle(p) /\ p.k = "loadReadingLists"
    /\ pending' = Settle(p)
    /\ LET lists == getReadingLists(mockReadingLists) IN
       bd' = SetBD([bd EXCEPT
                !.readingLists = lists,
                !.selectedListId = IF Len(lists) > 0 THEN lists[1].id ELSE "",
                !.isListsLoading = FALSE,
                !.isAddModalOpen = IF p.openModal THEN TRUE ELSE @])
    /\ alertMsg' = ""
    /\ UNCHANGED <<rl, mockReadingLists, server, api, auth, vf>>

\* onChange of the select (lines 273-283)
BD_SelectList(j) ==
    /\ Rendered /\ bd.isAddModalOpen /\ ~bd.isListsLoading
    /\ j \in 1..Len(bd.readingLists)
    /\ bd' = [bd EXCEPT !.selectedListId = bd.readingLists[j].id]
    /\ alertMsg' = ""
    /\ UNCHANGED <<rl, pending, mockReadingLists, server, api, auth, vf>>

\* onClose of the modal and its Cancel button (lines 260, 295)
BD_CloseAddModal ==
    /\ Rendered /\ bd.isAddModalOpen
    /\ bd' = [bd EXCEPT !.isAddModalOpen = FALSE]
    /\ alertMsg' = ""
    /\ UNCHANGED <<rl, pending, mockReadingLists, server, api, auth, vf>>

\* handleConfirmAddToList up to its await (lines 83-108)
BD_HandleConfirmAddToList ==
    /\ ConfirmEnabled
    /\ IF ~bd.book.present
       THEN alertMsg' = "" /\ UNCHANGED <<bd, pending>>
       ELSE IF bd.selectedListId = ""
       THEN alertMsg' = "Please select a reading list" /\ UNCHANGED <<bd, pending>>
       ELSE IF targetIndex = 0
       THEN alertMsg' = "Selected reading list not found" /\ UNCHANGED <<bd, pending>>
       ELSE LET target == bd.readingLists[targetIndex]
                ids == currentIds(target)
            IN  IF alreadyInList(ids, bd.book)
                THEN /\ alertMsg' = "This book is already in the selected reading list."
                     /\ UNCHANGED <<bd, pending>>
                ELSE /\ HasRoom("BookDetail")
                     /\ alertMsg' = ""
                     /\ bd' = [bd EXCEPT !.isAdding = TRUE]
                     /\ pending' = Start(
                            [k |-> "updateReadingList", from |-> "BookDetail",
                             id |-> bd.selectedListId,
                             book |-> bd.book,
                             list |-> [bookIds |-> nextBookIds(ids, bd.book)],
                             target |-> target])
    /\ UNCHANGED <<rl, mockReadingLists, server, api, auth, vf>>

\* handleConfirmAddToList after its await (lines 108-121); the mock
\* updateReadingList always resolves and its result is not used here
BD_AddDone(p) ==
    /\ CanSettle(p)
    /\ p.k = "updateReadingList" /\ p.from = "BookDetail"
    /\ pending' = Settle(p)
    /\ bd' = SetBD([bd EXCEPT
            !.readingLists = addToMirror(@, p.id, p.list.bookIds),
            !.isAddModalOpen = FALSE,
            !.isAdding = FALSE])
    /\ alertMsg' = "Book added to reading list!"
    /\ UNCHANGED <<rl, mockReadingLists, server, api, auth, vf>>

\* the component after its first render and its two mount effects (lines 18-40)
BDMounted(r) == [BDIdle EXCEPT !.id = r, !.isListsLoading = TRUE, !.mounted = TRUE]

BDMountPending(r) ==
    <<[k |-> "loadBook", bookId |-> r], [k |-> "loadReadingLists", openModal |-> FALSE]>>

\* mock collections of n entries: the first holds at most b identifiers in any
\* form bookIds can take, the entries after it hold an empty array
MocksOf(n, b) ==
    {[i \in 1..n |-> MkList(ListIds[i], <<"A">>, <<>>,
                            IF i = 1 THEN v ELSE ArrayOf(<<>>), "t0", "t0")] :
        v \in BookIdsValues(b)}

\* the mock collections the page is loaded with: none, or as many as the bound
BDMocks == UNION {MocksOf(n, MaxMockBooks) : n \in {0, MaxMockLists}}

-----------------------------------------------------------------------------
(* Reading List Manager, pages/ReadingLists.tsx *)

CreatedIds == <<"N1", "N2", "N3">>
\* what the user types into the name input and into the description input of
\* a modal, one change event at a time
TypedNames == {<<" ">>, <<" ", "B", " ">>}
TypedDescriptions == {<<"d">>}
CreateResponses == [status : {200, 500}, body : {"list", "invalid"}]

NoSelection == <<>>

RLIdle ==
    [isLoading |-> TRUE, mounted |-> FALSE, lists |-> <<>>,
     isCreateModalOpen |-> FALSE, newListName |-> <<>>, newListDescription |-> <<>>,
     isEditModalOpen |-> FALSE, selectedList |-> NoSelection,
     editName |-> <<>>, editDescription |-> <<>>,
     isSaving |-> FALSE, isDeleting |-> FALSE]

\* the component after its first render and its mount effect (lines 17-34)
RLMounted == [RLIdle EXCEPT !.mounted = TRUE]

RLMountPending == <<[k |-> "loadLists"]>>

\* the cards and the Create button are rendered once the lists are loaded
RLRendered == rl.mounted /\ ~rl.isLoading

\* the render of lines 131-177 throws: the lists are shown and an entry has
\* no bookIds to take the length of (line 171)
RenderThrows(s) ==
    /\ ~s.isLoading
    /\ \E i \in 1..Len(s.lists) : ~s.lists[i].bookIds.isArray

\* the state updates of a handler and the render that follows them: updates
\* of an unmounted component are dropped, and a render that throws unmounts
\* the page, which has no error boundary
SetRL(new) ==
    IF ~rl.mounted THEN rl
    ELSE IF RenderThrows(new) THEN RLIdle
    ELSE new

\* lines 81-86
closeEditModal(s) ==
    [s EXCEPT !.isEditModalOpen = FALSE, !.selectedList = NoSelection,
              !.editName = <<>>, !.editDescription = <<>>]

\* line 61 with the new entry put first
appendToMirror_front(prev, created) == <<created>> \o prev

\* line 61
appendToMirror(prev, created) == Append(prev, created)

\* line 102 with the entry added when the mirror has none with its identifier
replaceInMirror_upsert(prev, updated) ==
    IF \E i \in 1..Len(prev) : prev[i].id = updated.id
    THEN [i \in 1..Len(prev) |-> IF prev[i].id = updated.id THEN updated ELSE prev[i]]
    ELSE Append(prev, updated)

\* line 102 without the comparison of identifiers
replaceInMirror_all(prev, updated) == [i \in 1..Len(prev) |-> updated]

\* line 102
replaceInMirror(prev, updated) ==
    [i \in 1..Len(prev) |-> IF prev[i].id = updated.id THEN updated ELSE prev[i]]

\* line 121 with the comparison inverted
removeFromMirror_inverted(prev, id) == SelectSeq(prev, LAMBDA l : l.id = id)

\* line 121
removeFromMirror(prev, id) == SelectSeq(prev, LAMBDA l : l.id # id)

\* line 49 and line 90 without trim()
isBlank_untrimmed(name) == name = <<>>

\* line 49 and line 90
isBlank(name) == Trim(name) = <<>>

\* loadLists after its await (lines 39-45)
RL_LoadListsDone(p) ==
    /\ CanSettle(p) /\ p.k = "loadLists"
    /\ pending' = Settle(p)
    /\ rl' = SetRL([rl EXCEPT !.lists = getReadingLists(mockReadingLists), !.isLoading = FALSE])
    /\ alertMsg' = ""
    /\ UNCHANGED <<bd, mockReadingLists, server, api, auth, vf>>

\* the two Create buttons (lines 147, 156), which take the click also while
\* the modal is open
RL_OpenCreateModal ==
    /\ RLRendered
    /\ rl' = [rl EXCEPT !.isCreateModalOpen = TRUE]
    /\ alertMsg' = ""
    /\ UNCHANGED <<bd, pending, mockReadingLists, server, api, auth, vf>>

\* onClose and Cancel of the create modal (lines 182, 209)
RL_CloseCreateModal ==
    /\ RLRendered /\ rl.isCreateModalOpen
    /\ rl' = [rl EXCEPT !.isCreateModalOpen = FALSE]
    /\ alertMsg' = ""
    /\ UNCHANGED <<bd, pending, mockReadingLists, server, api, auth, vf>>

\* the name input of the create modal (line 190)
RL_SetNewListName(name) ==
    /\ RLRendered /\ rl.isCreateModalOpen
    /\ rl' = [rl EXCEPT !.newListName = name]
    /\ alertMsg' = ""
    /\ UNCHANGED <<bd, pending, mockReadingLists, server, api, auth, vf>>

\* the description input of the create modal (line 199)
RL_SetNewListDescription(description) ==
    /\ RLRendered /\ rl.isCreateModalOpen
    /\ rl' = [rl EXCEPT !.newListDescription = description]
    /\ alertMsg' = ""
    /\ UNCHANGED <<bd, pending, mockReadingLists, server, api, auth, vf>>

\* handleCreateList up to its await (lines 48-60)
RL_HandleCreateList ==
    /\ RLRendered /\ rl.isCreateModalOpen /\ ~rl.isSaving
    /\ IF isBlank(rl.newListName)
       THEN /\ alertMsg' = "Please enter a list name"
            /\ UNCHANGED <<rl, pending>>
       ELSE /\ HasRoom("ReadingLists")
            /\ Len(mockReadingLists) + server.created + CreatesInFlight < MaxManagerLists
            /\ alertMsg' = ""
            /\ rl' = [rl EXCEPT !.isSaving = TRUE]
            /\ pending' = Start(
                    [k |-> "createReadingList",
                     list |-> [name |-> Trim(rl.newListName),
                               description |-> rl.newListDescription,
                               bookIds |-> <<>>]])
    /\ UNCHANGED <<bd, mockReadingLists, server, api, auth, vf>>

\* handleCreateList after its await, with the modal closed in finally
RL_CreateDone_closing(p) ==
    /\ CanSettle(p) /\ p.k = "createReadingList"
    /\ pending' = Settle(p)
    /\ \E res \in {Settled(createReadingList(p.list, sess, resp,
                                              CreatedIds[server.created + 1])) :
                        sess \in SessionStates, resp \in CreateResponses} :
           IF res.outcome = "return"
           THEN /\ rl' = SetRL([rl EXCEPT !.lists = appendToMirror(@, res.value),
                                    !.isCreateModalOpen = FALSE,
                                    !.newListName = <<>>,
                                    !.newListDescription = <<>>,
                                    !.isSaving = FALSE])
                /\ server' = [server EXCEPT !.created = @ + 1]
                /\ alertMsg' = "Reading list created successfully!"
           ELSE /\ rl' = SetRL([rl EXCEPT !.isCreateModalOpen = FALSE, !.isSaving = FALSE])
                /\ server' = server
                /\ alertMsg' = res.error
    /\ UNCHANGED <<bd, mockReadingLists, api, auth, vf>>

\* handleCreateList after its await (lines 56-71)
RL_CreateDone(p) ==
    /\ CanSettle(p) /\ p.k = "createReadingList"
    /\ pending' = Settle(p)
    /\ \E res \in {Settled(createReadingList(p.list, sess, resp,
                                              CreatedIds[server.created + 1])) :
                        sess \in SessionStates, resp \in CreateResponses} :
           IF res.outcome = "return"
           THEN /\ rl' = SetRL([rl EXCEPT !.lists = appendToMirror(@, res.value),
                                    !.isCreateModalOpen = FALSE,
                                    !.newListName = <<>>,
                                    !.newListDescription = <<>>,
                                    !.isSaving = FALSE])
                /\ server' = [server EXCEPT !.created = @ + 1]
                /\ alertMsg' = "Reading list created successfully!"
           ELSE /\ rl' = SetRL([rl EXCEPT !.isSaving = FALSE])
                /\ server' = server
                /\ alertMsg' = res.error
    /\ UNCHANGED <<bd, mockReadingLists, api, auth, vf>>

\* click on a card (lines 74-79, 166)
RL_OpenEditModal(j) ==
    /\ RLRendered /\ j \in 1..Len(rl.lists)
    /\ LET list == rl.lists[j] IN
       rl' = [rl EXCEPT !.selectedList = <<list>>,
                        !.editName = list.name,
                        !.editDescription = list.description,
                        !.isEditModalOpen = TRUE]
    /\ alertMsg' = ""
    /\ UNCHANGED <<bd, pending, mockReadingLists, server, api, auth, vf>>

\* onClose and Cancel of the edit modal (lines 217, 243)
RL_CloseEditModal ==
    /\ RLRendered /\ rl.isEditModalOpen
    /\ rl' = closeEditModal(rl)
    /\ alertMsg' = ""
    /\ UNCHANGED <<bd, pending, mockReadingLists, server, api, auth, vf>>

\* the name input of the edit modal (line 223)
RL_SetEditName(name) ==
    /\ RLRendered /\ rl.isEditModalOpen
    /\ rl' = [rl EXCEPT !.editName = name]
    /\ alertMsg' = ""
    /\ UNCHANGED <<bd, pending, mockReadingLists, server, api, auth, vf>>

\* the description input of the edit modal (line 231)
RL_SetEditDescription(description) ==
    /\ RLRendered /\ rl.isEditModalOpen
    /\ rl' = [rl EXCEPT !.editDescription = description]
    /\ alertMsg' = ""
    /\ UNCHANGED <<bd, pending, mockReadingLists, server, api, auth, vf>>

\* handleUpdateList up to its await (lines 88-100)
RL_HandleUpdateList ==
    /\ RLRendered /\ rl.isEditModalOpen /\ ~rl.isSaving
    /\ IF rl.selectedList = NoSelection
       THEN alertMsg' = "" /\ UNCHANGED <<rl, pending>>
       ELSE IF isBlank(rl.editName)
       THEN alertMsg' = "Please enter a list name" /\ UNCHANGED <<rl, pending>>
       ELSE /\ HasRoom("ReadingLists")
            /\ alertMsg' = ""
            /\ rl' = [rl EXCEPT !.isSaving = TRUE]
            /\ pending' = Start(
                    [k |-> "updateReadingList", from |-> "ReadingLists",
                     id |-> rl.selectedList[1].id,
                     list |-> [name |-> Trim(rl.editName),
                               description |-> rl.editDescription],
                     submitted |-> rl.editName])
    /\ UNCHANGED <<bd, mockReadingLists, server, api, auth, vf>>

\* handleUpdateList after its await (lines 97-109); the mock always resolves
RL_UpdateDone(p) ==
    /\ CanSettle(p)
    /\ p.k = "updateReadingList" /\ p.from = "ReadingLists"
    /\ pending' = Settle(p)
    /\ LET updated == updateReadingList(mockReadingLists, p.id, p.list) IN
       rl' = SetRL([closeEditModal(rl) EXCEPT !.lists = replaceInMirror(@, updated),
                                        !.isSaving = FALSE])
    /\ alertMsg' = "Reading list updated successfully!"
    /\ UNCHANGED <<bd, mockReadingLists, server, api, auth, vf>>

\* handleDeleteList up to its await, with Delete disabled while a save is
\* in progress as well
RL_HandleDeleteList_exclusive(confirmed) ==
    /\ RLRendered /\ rl.isEditModalOpen /\ ~rl.isDeleting /\ ~rl.isSaving
    /\ alertMsg' = ""
    /\ IF rl.selectedList = NoSelection \/ ~confirmed
       THEN UNCHANGED <<rl, pending>>
       ELSE /\ HasRoom("ReadingLists")
            /\ rl' = [rl EXCEPT !.isDeleting = TRUE]
            /\ pending' = Start(
                    [k |-> "deleteReadingList", id |-> rl.selectedList[1].id])
    /\ UNCHANGED <<bd, mockReadingLists, server, api, auth, vf>>

\* handleDeleteList up to its await (lines 112-120)
RL_HandleDeleteList(confirmed) ==
    /\ RLRendered /\ rl.isEditModalOpen /\ ~rl.isDeleting
    /\ alertMsg' = ""
    /\ IF rl.selectedList = NoSelection \/ ~confirmed
       THEN UNCHANGED <<rl, pending>>
       ELSE /\ HasRoom("ReadingLists")
            /\ rl' = [rl EXCEPT !.isDeleting = TRUE]
            /\ pending' = Start(
                    [k |-> "deleteReadingList", id |-> rl.selectedList[1].id])
    /\ UNCHANGED <<bd, mockReadingLists, server, api, auth, vf>>

\* handleDeleteList after its await (lines 120-128); the mock always resolves
RL_DeleteDone(p) ==
    /\ CanSettle(p) /\ p.k = "deleteReadingList"
    /\ pending' = Settle(p)
    /\ rl' = SetRL([closeEditModal(rl) EXCEPT !.lists = removeFromMirror(@, p.id),
                                        !.isDeleting = FALSE])
    /\ alertMsg' = "Reading list deleted successfully!"
    /\ UNCHANGED <<bd, mockReadingLists, server, api, auth, vf>>

\* the mock collections the manager is loaded with: none, or one list fewer
\* than the bound, so that a list can be created beside the fetched ones
MockNames == <<<<"A">>, <<"C">>, <<"D">>, <<"E">>>>
RLMocks ==
    {[i \in 1..n |-> MkList(ListIds[i], MockNames[i], <<"d">>,
                            ArrayOf(<<<<"string", "1">>>>), "t0", "t0")] :
        n \in {0, MaxManagerLists - 1}}

-----------------------------------------------------------------------------
(* Verify page, pages/Verify.tsx *)

\* null of the error and info messages
NoText == "null"

RequiredBoth == "Email and verification code are required."
RequiredEmail == "Email is required to resend the code."
ResentInfo == "Verification code resent. Please check your email."
VerifyDefault == "Failed to verify account."
ResendDefault == "Failed to resend code."

\* how a call of the identity service settles: it resolves, or it rejects
\* with an error that has a message or with one that has none
ServiceOutcomes == {"resolves", "rejectsWithMessage", "rejects"}
ServiceMessage == "An account with the given email does not exist."

\* err?.message ?? fallback (lines 40, 60)
errorText(outcome, fallback) ==
    IF outcome = "rejectsWithMessage" THEN ServiceMessage ELSE fallback

\* what the user types into the email input and into the code input, one
\* change event at a time
TypedEmails == {<<>>, <<" ", "u", " ">>, <<"v">>}
TypedCodes == {<<" ">>, <<"1">>, <<" ", "2">>}

\* the email the sign-up page passes in location.state, "" when it passes none
RouteEmails == {<<>>, <<"u">>}

\* lines 12-17
VFIdle ==
    [error |-> NoText, mounted |-> FALSE, email |-> <<>>, code |-> <<>>,
     loading |-> FALSE, resendLoading |-> FALSE, info |-> NoText]

VFMounted(e) == [VFIdle EXCEPT !.email = e, !.mounted = TRUE]

\* state updates of an unmounted component are dropped
SetVF(new) == IF vf.mounted THEN new ELSE vf

\* onChange of the email input (line 75)
VF_SetEmail(email) ==
    /\ vf.mounted
    /\ vf' = [vf EXCEPT !.email = email]
    /\ UNCHANGED <<bd, rl, pending, mockReadingLists, alertMsg, server, api, auth>>

\* onChange of the code input (line 84)
VF_SetCode(code) ==
    /\ vf.mounted
    /\ vf' = [vf EXCEPT !.code = code]
    /\ UNCHANGED <<bd, rl, pending, mockReadingLists, alertMsg, server, api, auth>>

\* onConfirm up to its await (lines 19-31); the submit button is disabled
\* while loading
VF_OnConfirm ==
    /\ vf.mounted /\ ~vf.loading
    /\ IF Trim(vf.email) = <<>> \/ Trim(vf.code) = <<>>
       THEN /\ vf' = [vf EXCEPT !.error = RequiredBoth, !.info = NoText]
            /\ pending' = pending
       ELSE /\ HasRoom("Verify")
            /\ vf' = [vf EXCEPT !.error = NoText, !.info = NoText, !.loading = TRUE]
            /\ pending' = Start([k |-> "confirmSignUp",
                                 username |-> Trim(vf.email),
                                 confirmationCode |-> Trim(vf.code)])
    /\ UNCHANGED <<bd, rl, mockReadingLists, alertMsg, server, api, auth>>

\* onConfirm after its await, with loading cleared on success only
VF_ConfirmDone_stuck(p, outcome) ==
    /\ CanSettle(p) /\ p.k = "confirmSignUp"
    /\ pending' = Settle(p)
    /\ IF outcome = "resolves"
       THEN vf' = SetVF(VFIdle)
       ELSE vf' = SetVF([vf EXCEPT !.error = errorText(outcome, VerifyDefault)])
    /\ UNCHANGED <<bd, rl, mockReadingLists, alertMsg, server, api, auth>>

\* onConfirm after its await (lines 31-43); navigate to the login page
\* unmounts the component
VF_ConfirmDone(p, outcome) ==
    /\ CanSettle(p) /\ p.k = "confirmSignUp"
    /\ pending' = Settle(p)
    /\ IF outcome = "resolves"
       THEN vf' = SetVF(VFIdle)
       ELSE vf' = SetVF([vf EXCEPT !.error = errorText(outcome, VerifyDefault),
                                   !.loading = FALSE])
    /\ UNCHANGED <<bd, rl, mockReadingLists, alertMsg, server, api, auth>>

\* onResend up to its await (lines 46-57); the button is disabled while
\* resendLoading
VF_OnResend ==
    /\ vf.mounted /\ ~vf.resendLoading
    /\ IF Trim(vf.email) = <<>>
       THEN /\ vf' = [vf EXCEPT !.error = RequiredEmail, !.info = NoText]
            /\ pending' = pending
       ELSE /\ HasRoom("Verify")
            /\ vf' = [vf EXCEPT !.error = NoText, !.info = NoText, !.resendLoading = TRUE]
            /\ pending' = Start([k |-> "resendSignUpCode", username |-> Trim(vf.email)])
    /\ UNCHANGED <<bd, rl, mockReadingLists, alertMsg, server, api, auth>>

\* onResend after its await (lines 57-63)
VF_ResendDone(p, outcome) ==
    /\ CanSettle(p) /\ p.k = "resendSignUpCode"
    /\ pending' = Settle(p)
    /\ IF outcome = "resolves"
       THEN vf' = SetVF([vf EXCEPT !.info = ResentInfo, !.resendLoading = FALSE])
       ELSE vf' = SetVF([vf EXCEPT !.error = errorText(outcome, ResendDefault),
                                   !.resendLoading = FALSE])
    /\ UNCHANGED <<bd, rl, mockReadingLists, alertMsg, server, api, auth>>

-----------------------------------------------------------------------------
(* Specifications *)

ApiIdle == [id |-> "", sess |-> "noTokens", resp |-> [status |-> 200, body |-> "null"],
            fn |-> "none", result |-> Return(<<>>, JSNull)]
NoCall == [at |-> "none", asOf |-> FALSE]
\* the calls login and logout can wait for, each with what its answer will be
\* made from; calls holds how many of each are in flight
AuthCalls ==
    [at : {"signIn", "getCurrentUser", "fetchUserAttributes", "fetchAuthSession", "signOut"},
     asOf : BOOLEAN]
NoCalls == [c \in AuthCalls |-> 0]
AuthIdle == [isLoading |-> TRUE, user |-> [present |-> FALSE, role |-> ""],
             signedIn |-> FALSE,
             check |-> NoCall, calls |-> NoCalls]
ServerIdle == [created |-> 0]

\* Book Detail page
InitBD ==
    /\ \E r \in RouteIds : bd = BDMounted(r) /\ pending = BDMountPending(r)
    /\ mockReadingLists \in BDMocks
    /\ rl = RLIdle
    /\ alertMsg = ""
    /\ server = ServerIdle
    /\ api = ApiIdle
    /\ auth = AuthIdle
    /\ vf = VFIdle

NextBD ==
    \/ \E r \in RouteIds : BD_Navigate(r)
    \/ BD_Back
    \/ \E p \in InFlight : BD_LoadBookDone(p)
    \/ BD_HandleAddToList
    \/ \E p \in InFlight : BD_LoadReadingListsDone(p)
    \/ \E j \in 1..Len(bd.readingLists) : BD_SelectList(j)
    \/ BD_CloseAddModal
    \/ BD_HandleConfirmAddToList
    \/ \E p \in InFlight : BD_AddDone(p)

SpecBD == InitBD /\ [][NextBD]_vars

\* Reading List Manager
InitRL ==
    /\ rl = RLMounted
    /\ pending = RLMountPending
    /\ mockReadingLists \in RLMocks
    /\ bd = BDIdle
    /\ alertMsg = ""
    /\ server = ServerIdle
    /\ api = ApiIdle
    /\ auth = AuthIdle
    /\ vf = VFIdle

NextRL ==
    \/ \E p \in InFlight : RL_LoadListsDone(p)
    \/ RL_OpenCreateModal
    \/ RL_CloseCreateModal
    \/ \E name \in TypedNames : RL_SetNewListName(name)
    \/ \E description \in TypedDescriptions : RL_SetNewListDescription(description)
    \/ RL_HandleCreateList
    \/ \E p \in InFlight : RL_CreateDone(p)
    \/ \E j \in 1..Len(rl.lists) : RL_OpenEditModal(j)
    \/ RL_CloseEditModal
    \/ \E name \in TypedNames : RL_SetEditName(name)
    \/ \E description \in TypedDescriptions : RL_SetEditDescription(description)
    \/ RL_HandleUpdateList
    \/ \E p \in InFlight : RL_UpdateDone(p)
    \/ \E c \in BOOLEAN : RL_HandleDeleteList(c)
    \/ \E p \in InFlight : RL_DeleteDone(p)

SpecRL == InitRL /\ [][NextRL]_vars

\* Both pages, each in a window of its own, on a collection that holds lists
\* and with the manager's forms left as the cards fill them
InitApp ==
    /\ \E r \in RouteIds : bd = BDMounted(r) /\ pending = BDMountPending(r) \o RLMountPending
    /\ mockReadingLists \in {m \in RLMocks : Len(m) > 0}
    /\ rl = RLMounted
    /\ alertMsg = ""
    /\ server = ServerIdle
    /\ api = ApiIdle
    /\ auth = AuthIdle
    /\ vf = VFIdle

NextApp ==
    \/ BD_Back
    \/ \E p \in InFlight : BD_LoadBookDone(p)
    \/ BD_HandleAddToList
    \/ \E p \in InFlight : BD_LoadReadingListsDone(p)
    \/ BD_HandleConfirmAddToList
    \/ \E p \in InFlight : BD_AddDone(p)
    \/ \E p \in InFlight : RL_LoadListsDone(p)
    \/ \E j \in 1..Len(rl.lists) : RL_OpenEditModal(j)
    \/ RL_HandleUpdateList
    \/ \E p \in InFlight : RL_UpdateDone(p)
    \/ RL_HandleDeleteList(TRUE)
    \/ \E p \in InFlight : RL_DeleteDone(p)

SpecApp == InitApp /\ [][NextApp]_vars

\* another client of the backend adds an identifier to a stored list. No code
\* of the repository does this: the program never writes mockReadingLists, and
\* the mock's getReadingLists resolves with that array itself. The step stands
\* for the backend of the add-to-list flow on a shared collection, whose store
\* is apart from the page's mirror, so the mirror is left as it is.
Env_OtherClientAdds(k, v) ==
    /\ k \in 1..Len(mockReadingLists)
    /\ mockReadingLists[k].bookIds.isArray
    /\ Len(mockReadingLists[k].bookIds.items) <= MaxMockBooks
    /\ ~Includes(mockReadingLists[k].bookIds.items, v)
    /\ mockReadingLists' =
            [mockReadingLists EXCEPT ![k].bookIds = ArrayOf(@.items \o <<v>>)]
    /\ UNCHANGED <<bd, rl, pending, alertMsg, server, api, auth, vf>>

\* Book Detail on a collection of one list that another client also writes
InitShared ==
    /\ \E r \in RouteIds : bd = BDMounted(r) /\ pending = BDMountPending(r)
    /\ mockReadingLists \in MocksOf(1, MaxMockBooks)
    /\ rl = RLIdle
    /\ alertMsg = ""
    /\ server = ServerIdle
    /\ api = ApiIdle
    /\ auth = AuthIdle
    /\ vf = VFIdle

NextShared ==
    \/ BD_Back
    \/ \E p \in InFlight : BD_LoadBookDone(p)
    \/ BD_HandleAddToList
    \/ \E p \in InFlight : BD_LoadReadingListsDone(p)
    \/ BD_HandleConfirmAddToList
    \/ \E p \in InFlight : BD_AddDone(p)
    \/ \E k \in 1..Len(mockReadingLists), v \in BookIdValues : Env_OtherClientAdds(k, v)

SpecShared == InitShared /\ [][NextShared]_vars

\* Verify page
InitVerify ==
    /\ \E e \in RouteEmails : vf = VFMounted(e)
    /\ pending = <<>>
    /\ mockReadingLists = <<>>
    /\ bd = BDIdle
    /\ rl = RLIdle
    /\ alertMsg = ""
    /\ server = ServerIdle
    /\ api = ApiIdle
    /\ auth = AuthIdle

NextVerify ==
    \/ \E email \in TypedEmails : VF_SetEmail(email)
    \/ \E code \in TypedCodes : VF_SetCode(code)
    \/ VF_OnConfirm
    \/ \E p \in InFlight, outcome \in ServiceOutcomes : VF_ConfirmDone(p, outcome)
    \/ VF_OnResend
    \/ \E p \in InFlight, outcome \in ServiceOutcomes : VF_ResendDone(p, outcome)

SpecVerify == InitVerify /\ [][NextVerify]_vars

\* any one of the three pages, the two pages of the reading lists on a
\* collection of at most one list
InitPages ==
    \/ InitShared
    \/ InitRL /\ Len(mockReadingLists) <= 1
    \/ InitVerify

NextPages == NextBD \/ NextRL \/ NextVerify

SpecPages == InitPages /\ [][NextPages]_vars

-----------------------------------------------------------------------------
(* Properties of the Book Detail add-to-list flow *)

\* no two identifiers of the sequence have the same text
NoDuplicateText(items) ==
    \A i, j \in 1..Len(items) : i # j => items[i][2] # items[j][2]

NoDuplicate(items) ==
    \A i, j \in 1..Len(items) : i # j => items[i] # items[j]

\* the add-to-list updates in flight
AddPending ==
    {p \in InFlight : p.k = "updateReadingList" /\ p.from = "BookDetail"}

\* the step in which the pending add-to-list update settles
AddSettles == AddPending # {} /\ AddPending' = {}

\* C1: when an add-to-list confirmation succeeds, the identifiers sent to
\* updateReadingList are the target's identifiers at the time of the click,
\* each as a string and in order, followed by String(book.id): one more than
\* before and free of duplicates when the prior ones were; every mirror entry
\* with the target's id then holds exactly that array.
C1_AddAppendsOne ==
    [][AddSettles =>
        LET p == CHOOSE q \in AddPending : TRUE
            prior == p.target.bookIds.items
            sent == p.list.bookIds
        IN  /\ Len(sent) = Len(prior) + 1
            /\ \A k \in 1..Len(prior) : sent[k] = <<"string", prior[k][2]>>
            /\ sent[Len(sent)] = <<"string", p.book.id[2]>>
            /\ NoDuplicateText(prior) => NoDuplicate(sent)
            /\ bd.mounted =>
                 /\ \E k \in 1..Len(bd'.readingLists) : bd'.readingLists[k].id = p.id
                 /\ \A k \in 1..Len(bd'.readingLists) :
                        bd'.readingLists[k].id = p.id
                            => bd'.readingLists[k].bookIds = ArrayOf(sent)
    ]_vars

\* an add has just succeeded on a list whose fetched identifiers began with a
\* number, and the mirror entry is one longer than the fetched one
C1_Witness ==
    /\ bd.mounted /\ alertMsg = "Book added to reading list!"
    /\ \E k \in 1..Len(bd.readingLists) :
          /\ k <= Len(mockReadingLists)
          /\ Len(mockReadingLists[k].bookIds.items) > 0
          /\ mockReadingLists[k].bookIds.items[1][1] = "number"
          /\ Len(bd.readingLists[k].bookIds.items)
                = Len(mockReadingLists[k].bookIds.items) + 1

\* the displayed book is, compared as a string, a member of the selected list
SelectedListHasBook ==
    \E k \in 1..Len(bd.readingLists) :
        /\ bd.readingLists[k].id = bd.selectedListId
        /\ \A j \in 1..(k - 1) : bd.readingLists[j].id # bd.selectedListId
        /\ \E m \in 1..Len(bd.readingLists[k].bookIds.items) :
              bd.readingLists[k].bookIds.items[m][2] = bd.book.id[2]

DuplicateWarning == "This book is already in the selected reading list."

\* C2: a confirmation for a book that is already in the selected list raises
\* the warning, issues no update and changes neither the mirror nor the modal.
C2_DuplicateRejected ==
    [][(BD_HandleConfirmAddToList /\ SelectedListHasBook) =>
            /\ alertMsg' = DuplicateWarning
            /\ pending' = pending
            /\ bd' = bd
    ]_vars

\* the warning was raised for a numeric book id matching a string member
C2_Witness ==
    /\ alertMsg = DuplicateWarning
    /\ bd.book.id[1] = "number"
    /\ bd.isAddModalOpen
    /\ \E k \in 1..Len(bd.readingLists) :
          /\ bd.readingLists[k].id = bd.selectedListId
          /\ ~Includes(bd.readingLists[k].bookIds.items, bd.book.id)

\* C3: when the fetched lists are free of duplicates, so is every list of
\* the mirror, in every reachable state.
C3_MirrorDuplicateFree ==
    (\A k \in 1..Len(mockReadingLists) :
        NoDuplicateText(mockReadingLists[k].bookIds.items))
    => \A k \in 1..Len(bd.readingLists) :
            NoDuplicateText(bd.readingLists[k].bookIds.items)

\* a list of the mirror holds an added identifier next to a fetched one
\* while a re-fetch is in flight
C3_Witness ==
    /\ bd.mounted
    /\ \E p \in InFlight : p.k = "loadReadingLists"
    /\ \E k \in 1..Len(bd.readingLists) :
          /\ k <= Len(mockReadingLists)
          /\ NoDuplicateText(mockReadingLists[k].bookIds.items)
          /\ Len(mockReadingLists[k].bookIds.items) > 0
          /\ Len(bd.readingLists[k].bookIds.items)
                > Len(mockReadingLists[k].bookIds.items)

-----------------------------------------------------------------------------
(* Properties of the Reading List Manager *)

AllSpaces(name) == \A k \in 1..Len(name) : name[k] = " "

\* t is n without its leading and trailing spaces
IsTrimOf(t, n) ==
    \E a \in 0..Len(n) :
        /\ a + Len(t) <= Len(n)
        /\ SubSeq(n, a + 1, a + Len(t)) = t
        /\ AllSpaces(SubSeq(n, 1, a))
        /\ AllSpaces(SubSeq(n, a + Len(t) + 1, Len(n)))
        /\ t # <<>> => (t[1] # " " /\ t[Len(t)] # " ")

NameWarning == "Please enter a list name"

\* C4: submitting the create form with an empty or whitespace-only name
\* raises the warning, issues no call, and leaves the mirror and the open
\* create modal as they were.
C4_BlankNameRejected ==
    [][(RL_HandleCreateList /\ AllSpaces(rl.newListName)) =>
            /\ alertMsg' = NameWarning
            /\ pending' = pending
            /\ rl' = rl
            /\ rl'.isCreateModalOpen
    ]_vars

\* the warning was raised by the create form, the edit form being closed,
\* for a name made of spaces, with the modal open and lists in the mirror
C4_Witness ==
    /\ alertMsg = NameWarning /\ ~rl.isEditModalOpen
    /\ rl.newListName # <<>> /\ AllSpaces(rl.newListName)
    /\ rl.isCreateModalOpen
    /\ Len(rl.lists) > 0

\* the manager's updates and deletes in flight
UpdatePending ==
    {p \in InFlight : p.k = "updateReadingList" /\ p.from = "ReadingLists"}

DeletePending == {p \in InFlight : p.k = "deleteReadingList"}

UpdateSettles == UpdatePending # {} /\ UpdatePending' = {}
DeleteSettles == DeletePending # {} /\ DeletePending' = {}

\* C5: when a save settles, every mirror entry with the saved list's id has
\* the submitted name without its surrounding spaces, every other entry is
\* what it was, and the mirror has as many entries as before.
C5_SaveRenamesOnlySelected ==
    [][UpdateSettles =>
        LET p == CHOOSE q \in UpdatePending : TRUE IN
        /\ Len(rl'.lists) = Len(rl.lists)
        /\ \A k \in 1..Len(rl.lists) :
              IF rl.lists[k].id = p.id
              THEN /\ rl'.lists[k].id = p.id
                   /\ IsTrimOf(rl'.lists[k].name, p.submitted)
              ELSE rl'.lists[k] = rl.lists[k]
    ]_vars

\* C5 for the saves of the lists that getReadingLists resolved with: the
\* page is still shown after them
C5_SaveRenamesFetched ==
    [][(UpdateSettles /\ \A q \in UpdatePending : q.id \in {mockReadingLists[m].id : m \in 1..Len(mockReadingLists)}) =>
        LET p == CHOOSE q \in UpdatePending : TRUE IN
        /\ Len(rl'.lists) = Len(rl.lists)
        /\ \A k \in 1..Len(rl.lists) :
              IF rl.lists[k].id = p.id
              THEN /\ rl'.lists[k].id = p.id
                   /\ IsTrimOf(rl'.lists[k].name, p.submitted)
              ELSE rl'.lists[k] = rl.lists[k]
    ]_vars

\* a save with a name typed with surrounding spaces has just settled and
\* renamed the fetched list in a mirror that also holds a created list
C5_Witness ==
    /\ alertMsg = "Reading list updated successfully!"
    /\ Len(rl.lists) >= 2 /\ Len(mockReadingLists) >= 1
    /\ rl.lists[1].id = mockReadingLists[1].id
    /\ rl.lists[1].name = <<"B">> /\ mockReadingLists[1].name # <<"B">>
    /\ rl.lists[2].id = CreatedIds[1]

\* how many of the first k entries have this id
RECURSIVE CountId(_, _, _)
CountId(lists, id, k) ==
    IF k = 0 THEN 0
    ELSE CountId(lists, id, k - 1) + (IF lists[k].id = id THEN 1 ELSE 0)

\* C6: when a confirmed delete settles, the mirror is the prior mirror
\* without the entries that have the deleted list's id, the others kept in
\* order, and the edit modal is closed with no list selected.
C6_DeleteRemovesOnlySelected ==
    [][DeleteSettles =>
        LET p == CHOOSE q \in DeletePending : TRUE IN
        /\ Len(rl'.lists) = Len(rl.lists) - CountId(rl.lists, p.id, Len(rl.lists))
        /\ \A k \in 1..Len(rl.lists) :
              rl.lists[k].id # p.id =>
                  rl'.lists[k - CountId(rl.lists, p.id, k)] = rl.lists[k]
        /\ ~rl'.isEditModalOpen
        /\ rl'.selectedList = NoSelection
    ]_vars

\* a delete has just settled and removed the fetched list from a mirror
\* that keeps the created one
C6_Witness ==
    /\ alertMsg = "Reading list deleted successfully!"
    /\ Len(mockReadingLists) >= 1
    /\ Len(rl.lists) = 1
    /\ rl.lists[1].id = CreatedIds[1]
    /\ ~rl.isEditModalOpen

-----------------------------------------------------------------------------
(* Calls of the API client, one at a time *)

ApiBookIds == {"", "1", "404id"}

ApiCall(fn, id, sess, resp, result) ==
    /\ api' = [id |-> id, sess |-> sess, resp |-> resp, fn |-> fn, result |-> result]
    /\ UNCHANGED <<bd, rl, pending, mockReadingLists, alertMsg, server, auth, vf>>

Api_getBooks_first(sess, resp) ==
    ApiCall("getBooks_first", "", sess, resp, getBooks_first(resp))

Api_getBook_first(id, sess, resp) ==
    ApiCall("getBook_first", id, sess, resp, getBook_first(id, resp))

Api_getBooks(sess, resp) == ApiCall("getBooks", "", sess, resp, getBooks(sess, resp))

Api_getBook(id, sess, resp) == ApiCall("getBook", id, sess, resp, getBook(id, sess, resp))

Api_createBook(sess, resp) == ApiCall("createBook", "", sess, resp, createBook(sess, resp))

Api_updateBook(id, sess, resp) ==
    ApiCall("updateBook", id, sess, resp, updateBook(id, sess, resp))

Api_deleteBook(id, sess, resp) ==
    ApiCall("deleteBook", id, sess, resp, deleteBook(id, sess, resp))

Api_getRecommendations(sess, resp) ==
    ApiCall("getRecommendations", "", sess, resp, getRecommendations(sess, resp))

Api_createReadingList(sess, resp) ==
    ApiCall("createReadingList", "", sess, resp,
            createReadingList([name |-> <<"A">>, description |-> <<>>, bookIds |-> <<>>],
                              sess, resp, CreatedIds[1]))

InitApi ==
    /\ api = ApiIdle
    /\ bd = BDIdle
    /\ rl = RLIdle
    /\ pending = <<>>
    /\ mockReadingLists = <<>>
    /\ alertMsg = ""
    /\ server = ServerIdle
    /\ auth = AuthIdle
    /\ vf = VFIdle

NextApi ==
    \E id \in ApiBookIds, sess \in SessionStates, resp \in BookResponses :
        \/ Api_getBooks_first(sess, resp)
        \/ Api_getBook_first(id, sess, resp)
        \/ Api_getBooks(sess, resp)
        \/ Api_getBook(id, sess, resp)
        \/ Api_createBook(sess, resp)
        \/ Api_updateBook(id, sess, resp)
        \/ Api_deleteBook(id, sess, resp)
        \/ Api_getRecommendations(sess, resp)
        \/ Api_createReadingList(sess, resp)

SpecApi == InitApi /\ [][NextApi]_vars

GetBookFns == {"getBook", "getBook_first"}

\* C7: getBook with an empty identifier returns null and issues no request;
\* getBook answered with HTTP 404 returns null and does not throw.
C7_GetBookAbsent ==
    api.fn \in GetBookFns =>
        /\ api.id = "" =>
              /\ api.result.outcome = "return"
              /\ api.result.value = JSNull
              /\ api.result.requests = <<>>
        /\ (api.id # "" /\ api.resp.status = 404) =>
              /\ api.result.outcome = "return"
              /\ api.result.value = JSNull

\* getBook has asked the backend for a book and was answered 404
C7_Witness ==
    /\ api.fn = "getBook" /\ api.id = "404id" /\ api.resp.status = 404
    /\ Len(api.result.requests) = 1
    /\ api.result.value = JSNull

GenericErrors ==
    {"Failed to fetch books", "Failed to fetch book", "Failed to create book",
     "Failed to update book", "Failed to delete book",
     "Failed to get recommendations", "Failed to create reading list"}

\* C8: a call whose request is answered with a status outside 2xx throws a
\* generic error, except getBook answered 404; so getBook throws on every
\* other status outside 2xx.
C8_NonOkFails ==
    (/\ Len(api.result.requests) > 0
     /\ api.resp.status \notin 200..299
     /\ ~(api.fn \in GetBookFns /\ api.resp.status = 404))
    => /\ api.result.outcome = "throw"
       /\ api.result.error \in GenericErrors

\* C9: every request carries the Authorization header exactly when the
\* session yields a token, and a missing token never stops the call.
C9_BearerIffToken ==
    /\ \A k \in 1..Len(api.result.requests) :
          (api.result.requests[k].headers.authorization # NoAuthorization)
              <=> (api.sess = "token")
    /\ (api.fn \notin GetBookFns \cup {"none"} \/ api.id # "")
          => Len(api.result.requests) = 1

-----------------------------------------------------------------------------
(* Auth context, src/contexts/AuthContext.tsx *)

\* Characters of a groups claim; "Admins" stands for that run of six letters.
ClaimChars == {"Admins", "x", ",", " "}
ADMINS == <<"Admins">>

\* positions of the commas of s
Commas(s) == {i \in 1..Len(s) : s[i] = ","}

\* String.prototype.split(','): the pieces between the commas, empty ones too
RECURSIVE Split(_)
Split(s) ==
    IF Commas(s) = {} THEN <<s>>
    ELSE LET c == CHOOSE i \in Commas(s) : \A j \in Commas(s) : i <= j
         IN  <<SubSeq(s, 1, c - 1)>> \o Split(SubSeq(s, c + 1, Len(s)))

UndefinedClaim == [type |-> "undefined", arr |-> <<>>, str |-> <<>>]
ArrayClaim(a) == [type |-> "array", arr |-> a, str |-> <<>>]
StringClaim(t) == [type |-> "string", arr |-> <<>>, str |-> t]
OtherClaim == [type |-> "number", arr |-> <<>>, str |-> <<>>]

\* session.tokens?.idToken?.payload?.['cognito:groups']
groupsClaim(session) == IF session.hasIdToken THEN session.groups ELSE UndefinedClaim

\* lines 32-46 without the trim() of line 42
getRoleFromSession_untrimmed(session) ==
    LET claim == groupsClaim(session) IN
    IF claim.type = "array"
    THEN IF Includes(claim.arr, ADMINS) THEN "admin" ELSE "user"
    ELSE IF claim.type = "string"
    THEN IF Includes(Split(claim.str), ADMINS) THEN "admin" ELSE "user"
    ELSE "user"

\* lines 32-46
getRoleFromSession(session) ==
    LET claim == groupsClaim(session) IN
    IF claim.type = "array"
    THEN IF Includes(claim.arr, ADMINS) THEN "admin" ELSE "user"
    ELSE IF claim.type = "string"
    THEN IF Includes(MapSeq(Split(claim.str), Trim), ADMINS) THEN "admin" ELSE "user"
    ELSE "user"

GroupNames == {ADMINS, <<"x">>, <<"x", "Admins">>, <<"Admins", " ">>}

GroupsClaims ==
    {UndefinedClaim, OtherClaim}
        \cup {ArrayClaim(a) : a \in SeqsUpTo(GroupNames, MaxGroups)}
        \cup {StringClaim(t) : t \in SeqsUpTo(ClaimChars, MaxClaimLen)}

\* the session without tokens (nobody is signed in)
NoSession == [hasIdToken |-> FALSE, groups |-> UndefinedClaim]

\* what fetchAuthSession resolves with: no tokens, or an id token whose
\* payload holds any of the groups claims
Sessions == {NoSession} \cup [hasIdToken : {TRUE}, groups : GroupsClaims]

NoUser == [present |-> FALSE, role |-> ""]

\* AuthProvider before checkAuth has got an answer (lines 49-50, 74): its
\* first call is made.  signedIn is the state of the identity provider
AuthMounted(signedIn) ==
    [isLoading |-> TRUE, user |-> NoUser, signedIn |-> signedIn,
     check |-> [at |-> "getCurrentUser", asOf |-> signedIn],
     calls |-> NoCalls]

\* a handler makes a call of aws-amplify/auth and waits for it; the call is
\* answered as of the time it is made
Call(at) == [at |-> at, asOf |-> auth.signedIn]

\* what a call can be answered with: every call may reject, getCurrentUser
\* and fetchUserAttributes resolve only for a signed-in account
AuthOutcomes == {"resolves", "rejects"}
Answers(call, outcome) ==
    outcome = "resolves" => (call.at = "fetchAuthSession" \/ call.asOf)

\* the sessions a call can resolve with: fetchAuthSession resolves with the
\* session the identity provider issues for the account, which it alone
\* decides, and with no tokens when nobody is signed in
SessionsFor(call, outcome) ==
    IF outcome = "resolves" /\ call.at = "fetchAuthSession" /\ call.asOf
    THEN Sessions ELSE {NoSession}

\* the call after this one in lines 55-57 and 82-84
NextCall(at) == IF at = "getCurrentUser" THEN "fetchUserAttributes" ELSE "fetchAuthSession"

\* line 58 and line 85 for every session, computed once
RoleOfSession == [session \in Sessions |-> getRoleFromSession(session)]

\* the object of setUser (lines 60-66, 87-93)
UserOf(session) == [present |-> TRUE, role |-> RoleOfSession[session]]

\* checkAuth (lines 53-72): getCurrentUser or fetchUserAttributes resolves
\* and the next call is made
Auth_CheckAuthNext ==
    /\ auth.check.at \in {"getCurrentUser", "fetchUserAttributes"}
    /\ Answers(auth.check, "resolves")
    /\ auth' = [auth EXCEPT !.check = Call(NextCall(auth.check.at))]
    /\ UNCHANGED <<bd, rl, pending, mockReadingLists, alertMsg, server, api, vf>>

\* checkAuth (lines 53-72): fetchAuthSession resolves (lines 58-66), or one
\* of the three calls rejects (catch, line 68); finally line 70
Auth_CheckAuthDone(outcome, session) ==
    /\ auth.check.at # "none"
    /\ Answers(auth.check, outcome)
    /\ session \in SessionsFor(auth.check, outcome)
    /\ outcome = "resolves" => auth.check.at = "fetchAuthSession"
    /\ auth' = [auth EXCEPT
            !.user = IF outcome = "resolves" THEN UserOf(session) ELSE NoUser,
            !.isLoading = FALSE,
            !.check = NoCall]
    /\ UNCHANGED <<bd, rl, pending, mockReadingLists, alertMsg, server, api, vf>>

\* how many calls of login and logout are in flight
AuthCallsInFlight ==
    Cardinality({<<c, i>> \in AuthCalls \X (1..MaxAuthCalls) : i <= auth.calls[c]})

\* login or logout reaches an await / the call it waited for settles
AddCall(calls, c) == [calls EXCEPT ![c] = @ + 1]
RemoveCall(calls, c) == [calls EXCEPT ![c] = @ - 1]

\* login (lines 77-79): signIn is called and reaches the identity provider,
\* which signs the account in or does not (wrong password, network error)
Auth_Login(isSignedIn) ==
    /\ AuthCallsInFlight < MaxAuthCalls
    /\ auth' = [auth EXCEPT
            !.signedIn = IF isSignedIn THEN TRUE ELSE @,
            !.calls = AddCall(@, [at |-> "signIn", asOf |-> isSignedIn])]
    /\ UNCHANGED <<bd, rl, pending, mockReadingLists, alertMsg, server, api, vf>>

\* login (lines 79-84): signIn resolves signed in, or getCurrentUser or
\* fetchUserAttributes resolves, and the next call is made
Auth_LoginNext(c) ==
    /\ auth.calls[c] > 0
    /\ c.at \in {"signIn", "getCurrentUser", "fetchUserAttributes"}
    /\ c.asOf
    /\ auth' = [auth EXCEPT
            !.calls = AddCall(RemoveCall(@, c),
                              Call(IF c.at = "signIn" THEN "getCurrentUser"
                                   ELSE NextCall(c.at)))]
    /\ UNCHANGED <<bd, rl, pending, mockReadingLists, alertMsg, server, api, vf>>

\* login (lines 79-98): fetchAuthSession resolves (lines 85-93); or signIn
\* resolves not signed in or a call rejects, which leaves the user as it was
Auth_LoginDone(c, outcome, session) ==
    /\ auth.calls[c] > 0
    /\ c.at # "signOut"
    /\ session \in SessionsFor(c, outcome)
    /\ c.at = "signIn" => ~c.asOf
    /\ c.at # "signIn" => Answers(c, outcome)
    /\ outcome = "resolves" => c.at \in {"signIn", "fetchAuthSession"}
    /\ auth' = [auth EXCEPT
            !.user = IF outcome = "resolves" /\ c.at = "fetchAuthSession"
                     THEN UserOf(session) ELSE @,
            !.calls = RemoveCall(@, c)]
    /\ UNCHANGED <<bd, rl, pending, mockReadingLists, alertMsg, server, api, vf>>

\* logout (lines 101-103): signOut is called and reaches the identity
\* provider, which signs the account out or fails
Auth_Logout(signedOut) ==
    /\ AuthCallsInFlight < MaxAuthCalls
    /\ auth' = [auth EXCEPT
            !.signedIn = IF signedOut THEN FALSE ELSE @,
            !.calls = AddCall(@, [at |-> "signOut", asOf |-> signedOut])]
    /\ UNCHANGED <<bd, rl, pending, mockReadingLists, alertMsg, server, api, vf>>

\* logout (lines 103-107): signOut resolves and the user is cleared, or it
\* rejects and the error is logged
Auth_LogoutDone(c) ==
    /\ auth.calls[c] > 0
    /\ c.at = "signOut"
    /\ auth' = [auth EXCEPT
            !.user = IF c.asOf THEN NoUser ELSE @,
            !.calls = RemoveCall(@, c)]
    /\ UNCHANGED <<bd, rl, pending, mockReadingLists, alertMsg, server, api, vf>>

InitAuth ==
    /\ \E signedIn \in BOOLEAN : auth = AuthMounted(signedIn)
    /\ api = ApiIdle
    /\ bd = BDIdle
    /\ rl = RLIdle
    /\ pending = <<>>
    /\ mockReadingLists = <<>>
    /\ alertMsg = ""
    /\ server = ServerIdle
    /\ vf = VFIdle

NextAuth ==
    \/ Auth_CheckAuthNext
    \/ \E outcome \in AuthOutcomes :
          \E session \in SessionsFor(auth.check, outcome) : Auth_CheckAuthDone(outcome, session)
    \/ \E isSignedIn \in BOOLEAN : Auth_Login(isSignedIn)
    \/ \E c \in AuthCalls : Auth_LoginNext(c)
    \/ \E c \in AuthCalls, outcome \in AuthOutcomes :
          \E session \in SessionsFor(c, outcome) : Auth_LoginDone(c, outcome, session)
    \/ \E signedOut \in BOOLEAN : Auth_Logout(signedOut)
    \/ \E c \in AuthCalls : Auth_LogoutDone(c)

SpecAuth == InitAuth /\ [][NextAuth]_vars

\* position i of the string holds Admins, and only spaces separate it from
\* the comma, or the end of the string, on either side
NamesAdminsAt(str, i) ==
    /\ str[i] = "Admins"
    /\ \E lo \in 0..(i - 1), hi \in (i + 1)..(Len(str) + 1) :
          /\ lo = 0 \/ str[lo] = ","
          /\ hi = Len(str) + 1 \/ str[hi] = ","
          /\ \A k \in (lo + 1)..(i - 1) : str[k] = " "
          /\ \A k \in (i + 1)..(hi - 1) : str[k] = " "

\* the claim of the session lists a group whose name is Admins
HasAdminsGroup(session) ==
    /\ session.hasIdToken
    /\ \/ /\ session.groups.type = "array"
          /\ \E i \in 1..Len(session.groups.arr) :
                session.groups.arr[i] = <<"Admins">>
       \/ /\ session.groups.type = "string"
          /\ \E i \in 1..Len(session.groups.str) :
                NamesAdminsAt(session.groups.str, i)

\* the user that setUser gets for this session has the role the claim says
RoleSet(session) ==
    LET user == UserOf(session) IN
    /\ user.present
    /\ user.role \in {"admin", "user"}
    /\ user.role = "admin" <=> HasAdminsGroup(session)

\* so for every session a fetchAuthSession can resolve with
RolesAsClaimed == \A session \in Sessions : RoleSet(session)

\* the fetchAuthSession calls of login in flight
SessionFetches == {c \in AuthCalls : auth.calls[c] > 0 /\ c.at = "fetchAuthSession"}

\* the users made from the sessions this call can resolve with
UsersOfSessions == {UserOf(session) : session \in Sessions}
UsersFor(call) == IF call.asOf THEN UsersOfSessions ELSE {UserOf(NoSession)}

\* C10: the role of a user that checkAuth or login sets is admin exactly when
\* the groups claim of the session it fetched lists a group named Admins (an
\* element of the array, or an item of the comma-separated string); for every
\* other claim it is user.  Whenever a fetchAuthSession is in flight, the
\* user made from each session it can resolve with has that role, and a step
\* that puts a user in place takes the answer of such a call and sets the
\* user made from a session it can resolve with.
C10_AdminIffAdminsGroup ==
    /\ []((auth.check.at = "fetchAuthSession" \/ SessionFetches # {}) => RolesAsClaimed)
    /\ [][(auth'.user # auth.user /\ auth'.user.present) =>
             \/ /\ auth.check.at = "fetchAuthSession"
                /\ auth'.user \in UsersFor(auth.check)
                /\ auth'.check = NoCall
             \/ \E c \in SessionFetches :
                   /\ auth'.user \in UsersFor(c)
                   /\ auth'.calls = RemoveCall(auth.calls, c)]_vars

\* login has made a user admin and another login waits for its session; for
\* the string claim that names Admins after another group it will do so again
C10_Witness ==
    /\ auth.user.present /\ auth.user.role = "admin"
    /\ \E c \in SessionFetches :
          /\ c.asOf
          /\ ENABLED (/\ Auth_LoginDone(c, "resolves",
                            [hasIdToken |-> TRUE,
                             groups |-> StringClaim(<<"x", ",", "Admins">>)])
                      /\ auth'.user.role = "admin")

-----------------------------------------------------------------------------
(* Properties of the Book Detail page, continued *)

\* a list is selected and no entry of the mirror has its identifier
SelectedListMissing ==
    /\ bd.selectedListId # ""
    /\ \A k \in 1..Len(bd.readingLists) : bd.readingLists[k].id # bd.selectedListId

NotFoundWarning == "Selected reading list not found"

\* C11: a confirmation while the selected list is missing from the mirror
\* raises the warning, issues no update and leaves the page as it was.
C11_MissingListRejected ==
    [][(BD_HandleConfirmAddToList /\ bd.book.present /\ SelectedListMissing) =>
            /\ alertMsg' = NotFoundWarning
            /\ pending' = pending
            /\ bd' = bd
    ]_vars

\* the state in which C11 would apply: the modal is open on a missing list
C11_Case == ConfirmEnabled /\ bd.book.present /\ SelectedListMissing

\* getReadingLists always resolves with the same collection, so the case of
\* C11 is in no reachable state
C11_CaseUnreached == ~C11_Case

\* the book a fetch for this route identifier resolves with
IsBookOf(book, routeId) == book.present /\ book.id[2] = routeId

\* C12: a pending book fetch is never cancelled: whatever route the page is
\* on by then, its answer can still be applied, and it puts the book of the
\* route it was started for on display.
C12_StaleFetchApplied ==
    \A p \in InFlight :
        (p.k = "loadBook" /\ bd.mounted) =>
            ENABLED (/\ BD_LoadBookDone(p)
                     /\ bd'.mounted /\ ~bd'.isLoading
                     /\ IsBookOf(bd'.book, p.bookId))

\* nothing is pending and the book on display is not the book of the route
C12_Witness ==
    /\ pending = <<>>
    /\ Rendered
    /\ ~IsBookOf(bd.book, bd.id)

-----------------------------------------------------------------------------
(* Properties of the two pages together *)

\* the edit modal shows a list of the mirror
EditingAList == RLRendered /\ rl.isEditModalOpen /\ rl.selectedList # NoSelection

\* C13: nothing prevents two mutations of the same list from being in flight:
\* Delete is available whenever the edit modal is not already deleting, Save
\* whenever it is not already saving, and the Add of the selection modal
\* whenever the page is not already adding, whatever calls are pending.
C13_MutationsNotExcluded ==
    /\ (EditingAList /\ ~rl.isDeleting /\ HasRoom("ReadingLists"))
            => ENABLED (RL_HandleDeleteList(TRUE) /\ pending' # pending)
    /\ (EditingAList /\ ~rl.isSaving /\ ~isBlank(rl.editName) /\ HasRoom("ReadingLists"))
            => ENABLED (RL_HandleUpdateList /\ pending' # pending)
    /\ (ConfirmEnabled /\ ~SelectedListMissing /\ ~SelectedListHasBook
            /\ HasRoom("BookDetail"))
            => ENABLED (BD_HandleConfirmAddToList /\ pending' # pending)

\* an add-to-list update, a save and a delete of the same list are pending
C13_Witness ==
    \E a \in AddPending, u \in UpdatePending, d \in DeletePending :
        a.id = u.id /\ u.id = d.id

-----------------------------------------------------------------------------
(* Properties of the Reading List Manager, continued *)

CreatedMessage == "Reading list created successfully!"
UpdatedMessage == "Reading list updated successfully!"
DeletedMessage == "Reading list deleted successfully!"
AddedMessage == "Book added to reading list!"

\* the continuation of a mutating handler runs and reports no success
MutationFails ==
    /\ Len(pending') < Len(pending)
    /\ \/ alertMsg' # CreatedMessage /\ \E p \in InFlight : RL_CreateDone(p)
       \/ alertMsg' # UpdatedMessage /\ \E p \in InFlight : RL_UpdateDone(p)
       \/ alertMsg' # DeletedMessage /\ \E p \in InFlight : RL_DeleteDone(p)
       \/ alertMsg' # AddedMessage /\ \E p \in InFlight : BD_AddDone(p)

\* the continuation of a handler runs and reports its success
CallSucceeds ==
    \/ \E p \in InFlight : RL_LoadListsDone(p)
    \/ alertMsg' = CreatedMessage /\ \E p \in InFlight : RL_CreateDone(p)
    \/ alertMsg' = UpdatedMessage /\ \E p \in InFlight : RL_UpdateDone(p)
    \/ alertMsg' = DeletedMessage /\ \E p \in InFlight : RL_DeleteDone(p)

\* C14: the continuation of a mutating handler whose call failed leaves the
\* mirror and the modals as they are, and the mirror changes only in the
\* continuation of a call that succeeded.
C14_FailureLeavesMirror ==
    [][/\ MutationFails =>
            /\ rl'.lists = rl.lists
            /\ bd'.readingLists = bd.readingLists
            /\ rl'.isCreateModalOpen = rl.isCreateModalOpen
            /\ rl'.isEditModalOpen = rl.isEditModalOpen
            /\ bd'.isAddModalOpen = bd.isAddModalOpen
       /\ rl'.lists # rl.lists => CallSucceeds
    ]_vars

\* a create has failed: its error is shown, the create modal is still open
\* on the name that was submitted and the mirror holds the loaded lists
C14_Witness ==
    /\ alertMsg \in {"Failed to create reading list", "SyntaxError"}
    /\ rl.isCreateModalOpen /\ ~rl.isSaving
    /\ ~isBlank(rl.newListName)
    /\ Len(rl.lists) > 0
    /\ server.created = 0

\* what createReadingList can resolve with for a call in flight
CreateReturns(p) ==
    {res \in {Settled(createReadingList(p.list, sess, resp, CreatedIds[server.created + 1])) :
                sess \in SessionStates, resp \in CreateResponses} :
        res.outcome = "return"}

CreatePending == {p \in InFlight : p.k = "createReadingList"}

\* C18: the continuation of a create that succeeded appends the entry the
\* call returned to the mirror, keeps every other entry in place, closes the
\* create modal and empties its two inputs.
C18_CreateAppends ==
    [][((\E p \in CreatePending : RL_CreateDone(p)) /\ alertMsg' = CreatedMessage) =>
            /\ \E p \in CreatePending : \E res \in CreateReturns(p) :
                    /\ ~isBlank(res.value.name)
                    /\ rl'.lists = rl.lists \o <<res.value>>
            /\ ~rl'.isCreateModalOpen
            /\ rl'.newListName = <<>>
            /\ rl'.newListDescription = <<>>
    ]_vars

\* a list was created after the mock lists were loaded: it is the last entry
\* of the mirror, the modal is closed and its inputs are empty
C18_Witness ==
    /\ alertMsg = CreatedMessage
    /\ Len(rl.lists) > 1
    /\ rl.lists[Len(rl.lists)].id = CreatedIds[1]
    /\ \A k \in 1..(Len(rl.lists) - 1) : rl.lists[k] = mockReadingLists[k]
    /\ ~rl.isCreateModalOpen
    /\ rl.newListName = <<>> /\ rl.newListDescription = <<>>

-----------------------------------------------------------------------------
(* Properties of the Book Detail page: the lists and the book *)

\* the re-fetch started by a press of Add to Reading List settles
RefetchSettles ==
    \E p \in InFlight :
        p.k = "loadReadingLists" /\ p.openModal /\ BD_LoadReadingListsDone(p)

\* C15: the selection modal opens only in the step in which a re-fetch
\* started by Add to Reading List settles, and then shows the collection that
\* was fetched; the press itself does not open it.
C15_ModalAfterRefetch ==
    [][/\ (~bd.isAddModalOpen /\ bd'.isAddModalOpen) =>
            /\ RefetchSettles
            /\ bd'.readingLists = getReadingLists(mockReadingLists)
       /\ BD_HandleAddToList => bd'.isAddModalOpen = bd.isAddModalOpen
    ]_vars

\* the modal is open on the fetched lists and nothing is pending
C15_Witness ==
    /\ Rendered /\ bd.isAddModalOpen /\ ~bd.isListsLoading
    /\ Len(bd.readingLists) > 0
    /\ bd.readingLists = getReadingLists(mockReadingLists)
    /\ pending = <<>>

\* getBook resolved with null
Absent(res) == res.outcome = "return" /\ res.value = JSNull

\* the book fetches in flight
BookFetches == {p \in InFlight : p.k = "loadBook"}

\* C16: when the fetch for the route reports the book as absent the page
\* is left for the not-found view with no book set, and a book comes on
\* display only in the step in which a fetch returns it.
C16_AbsentBookRedirects ==
    [][/\ \A p \in BookFetches : \A res \in BookFetchResults(p.bookId) :
            (/\ bd.mounted /\ p.bookId = bd.id /\ Absent(res)
             /\ BD_LoadBookDone(p) /\ loadBookSettled(res))
                => ~bd'.mounted /\ ~bd'.book.present
       /\ (bd'.book.present /\ bd'.book # bd.book) =>
            \E p \in BookFetches : \E res \in BookFetchResults(p.bookId) :
                /\ BD_LoadBookDone(p)
                /\ res.outcome = "return" /\ ~Absent(res)
                /\ bd'.book = BookOf(res.value)
    ]_vars

\* the page was left: nothing of it is displayed and no book is set
C16_Witness ==
    /\ ~bd.mounted /\ ~bd.book.present
    /\ bd = BDIdle
    /\ pending # <<>>

\* the fetches of the reading lists in flight
ListFetches == {p \in InFlight : p.k = "loadReadingLists"}

\* C17: in the step in which a fetch of the reading lists settles, the mirror
\* becomes the fetched collection and the selection becomes the identifier of
\* its first list, or empty when it has none, whatever was selected before.
C17_FirstListSelected ==
    [][(bd.mounted /\ \E p \in ListFetches : BD_LoadReadingListsDone(p)) =>
            /\ bd'.readingLists = getReadingLists(mockReadingLists)
            /\ bd'.selectedListId =
                    IF Len(bd'.readingLists) > 0 THEN bd'.readingLists[1].id ELSE ""
    ]_vars

\* the modal was opened by a re-fetch of several lists: the first of them is
\* selected and no fetch is pending
C17_Witness ==
    /\ Rendered /\ bd.isAddModalOpen /\ ~bd.isListsLoading
    /\ Len(bd.readingLists) > 1
    /\ bd.selectedListId = bd.readingLists[1].id
    /\ ListFetches = {}

-----------------------------------------------------------------------------
(* Properties of the Reading List Manager: saves and deletes *)

\* the identifiers of the entries of a mirror
IdsOf(lists) == {lists[k].id : k \in 1..Len(lists)}

\* C19: when a save settles, the entry of the saved list keeps its book
\* identifiers and its creation timestamp, and so does every other entry.
C19_SaveKeepsMembers ==
    [][UpdateSettles =>
        /\ Len(rl'.lists) = Len(rl.lists)
        /\ \A k \in 1..Len(rl.lists) :
              /\ rl'.lists[k].bookIds = rl.lists[k].bookIds
              /\ rl'.lists[k].createdAt = rl.lists[k].createdAt
    ]_vars

\* the same for the saves of the lists that getReadingLists resolved with
C19_SaveKeepsMembersOfFetched ==
    [][(UpdateSettles /\ \A p \in UpdatePending : p.id \in IdsOf(mockReadingLists)) =>
        /\ Len(rl'.lists) = Len(rl.lists)
        /\ \A k \in 1..Len(rl.lists) :
              (\E m \in 1..Len(mockReadingLists) : mockReadingLists[m].id = rl.lists[k].id) =>
                  /\ rl'.lists[k].bookIds = rl.lists[k].bookIds
                  /\ rl'.lists[k].createdAt = rl.lists[k].createdAt
    ]_vars

\* the identifiers the backend has generated so far
IdsCreated == {CreatedIds[j] : j \in 1..server.created}

\* C20: a delete that settles leaves no entry with its identifier, and
\* afterwards no step brings an identifier back: the mirror gets a new
\* identifier only from the initial load and from a create, whose identifier
\* was never in the mirror before. A save that settles after the delete of
\* its list adds nothing.
C20_DeletedStaysDeleted ==
    /\ [](IdsOf(rl.lists) \subseteq IdsOf(mockReadingLists) \cup IdsCreated)
    /\ [][/\ DeleteSettles => \A d \in DeletePending : d.id \notin IdsOf(rl'.lists)
          /\ UpdateSettles => IdsOf(rl'.lists) \subseteq IdsOf(rl.lists)
          /\ IdsOf(rl'.lists) \subseteq IdsOf(rl.lists) \/
                \/ rl.isLoading /\ ~rl'.isLoading
                \/ /\ server'.created = server.created + 1
                   /\ IdsOf(rl'.lists) = IdsOf(rl.lists) \cup {CreatedIds[server'.created]}
      ]_vars

\* the save of a fetched list has settled after the delete of the same list:
\* its success is reported and the mirror is empty
C20_Witness ==
    /\ alertMsg = UpdatedMessage
    /\ Len(mockReadingLists) > 0
    /\ server.created = 0
    /\ rl.lists = <<>>
    /\ pending = <<>>

-----------------------------------------------------------------------------
(* Properties of the add-to-list flow on a shared collection *)

\* the text of every identifier of the first sequence is in the second
TextsWithin(a, b) ==
    \A m \in 1..Len(a) : \E j \in 1..Len(b) : b[j][2] = a[m][2]

\* the stored list an update is for, as the mock reads it when its timer fires
StoredFor(p) ==
    LET k == FindIndex(mockReadingLists, LAMBDA l : l.id = p.id)
    IN  IF k = 0 THEN UndefinedList ELSE mockReadingLists[k]

\* the entry the update of a pending confirmation resolves with
ResolvedFor(p) == updateReadingList(mockReadingLists, p.id, p.list)

\* the statement of C21 as the claim has it: when the update of a
\* confirmation settles, every identifier the stored list holds at that time
\* is a member of the entry the update resolves with.
C21_NoLostUpdate ==
    [][AddSettles =>
        \A p \in AddPending :
            TextsWithin(StoredFor(p).bookIds.items, ResolvedFor(p).bookIds.items)
    ]_vars

\* the texts of the identifiers an update carries: those of the snapshot the
\* page had fetched and the book's
CarriedTexts(p) ==
    {currentIds(p.target)[i][2] : i \in 1..Len(currentIds(p.target))}
        \cup {ToJSString(p.book.id)[2]}

\* the texts of the identifiers of the entry the update resolves with
ResolvedTexts(p) ==
    {ResolvedFor(p).bookIds.items[j][2] : j \in 1..Len(ResolvedFor(p).bookIds.items)}

\* C21: when the update of a confirmation settles, the entry it resolves
\* with holds the identifiers of the snapshot the page had fetched, as
\* strings, followed by the book's, and nothing else, and the mirror entry
\* holds the same. What the stored list holds at that time does not enter
\* it: an identifier of the stored list, one another client added after the
\* re-fetch included, is a member after the update exactly when its text is
\* that of an identifier of the snapshot or of the book, and is lost otherwise.
C21_UpdateWritesSnapshot ==
    [][AddSettles =>
        \A p \in AddPending :
            /\ ResolvedFor(p).bookIds = ArrayOf(nextBookIds(currentIds(p.target), p.book))
            /\ TextsWithin(currentIds(p.target), ResolvedFor(p).bookIds.items)
            /\ \A m \in 1..Len(StoredFor(p).bookIds.items) :
                  StoredFor(p).bookIds.items[m][2] \in ResolvedTexts(p)
                      <=> StoredFor(p).bookIds.items[m][2] \in CarriedTexts(p)
            /\ bd.mounted =>
                  \A k \in 1..Len(bd'.readingLists) :
                      bd'.readingLists[k].id = p.id =>
                          bd'.readingLists[k].bookIds = ResolvedFor(p).bookIds
    ]_vars

\* an update is in flight and the stored list holds, beside the snapshot the
\* page had fetched, two identifiers that another client added after the
\* re-fetch: one whose text the update does not carry, which is lost, and one
\* with the text of the book's identifier, which is a member after the update
C21_Witness ==
    \E p \in AddPending :
        LET stored == StoredFor(p).bookIds.items
            added == {m \in 1..Len(stored) : ~Includes(p.target.bookIds.items, stored[m])}
        IN  /\ StoredFor(p).bookIds.isArray
            /\ TextsWithin(currentIds(p.target), stored)
            /\ ~TextsWithin(stored, p.list.bookIds)
            /\ \E m \in added : stored[m][2] \notin CarriedTexts(p)
            /\ \E m \in added : stored[m][2] \in CarriedTexts(p)

-----------------------------------------------------------------------------
(* Properties of the selection of the Book Detail page *)

\* C22: the selected list identifier is empty or the identifier of a list of
\* the mirror, in every reachable state of the Book Detail page.
C22_SelectionInMirror ==
    \/ bd.selectedListId = ""
    \/ \E k \in 1..Len(bd.readingLists) : bd.readingLists[k].id = bd.selectedListId

\* the user selected another list than the first and added the book to it:
\* the modal is closed, the selection is still that list and the mirror
\* entry holds the book
C22_Witness ==
    /\ Rendered /\ ~bd.isAddModalOpen /\ ~bd.isAdding
    /\ alertMsg = AddedMessage
    /\ Len(bd.readingLists) > 1
    /\ bd.selectedListId = bd.readingLists[2].id
    /\ Includes(bd.readingLists[2].bookIds.items, ToJSString(bd.book.id))

-----------------------------------------------------------------------------
(* Properties of the Verify page *)

\* C24: the error message and the info message are never both set.
C24_OneMessage == ~(vf.error # NoText /\ vf.info # NoText)

\* the calls in flight that were started by the handlers with these names
PendingOf(kinds, window) ==
    {p \in InFlight : p.k \in kinds /\ Window(p) = window}

\* C23: on a mounted page a busy flag is set only while a call of a handler
\* that sets it is in flight: when none is, the flag is clear, whether the
\* calls before succeeded or failed.
C23_BusyFlagsCleared ==
    /\ bd.mounted =>
        /\ PendingOf({"loadBook"}, "BookDetail") = {} => ~bd.isLoading
        /\ PendingOf({"loadReadingLists"}, "BookDetail") = {} => ~bd.isListsLoading
        /\ PendingOf({"updateReadingList"}, "BookDetail") = {} => ~bd.isAdding
    /\ rl.mounted =>
        /\ PendingOf({"loadLists"}, "ReadingLists") = {} => ~rl.isLoading
        /\ PendingOf({"createReadingList", "updateReadingList"}, "ReadingLists") = {}
              => ~rl.isSaving
        /\ PendingOf({"deleteReadingList"}, "ReadingLists") = {} => ~rl.isDeleting
    /\ vf.mounted =>
        /\ PendingOf({"confirmSignUp"}, "Verify") = {} => ~vf.loading
        /\ PendingOf({"resendSignUpCode"}, "Verify") = {} => ~vf.resendLoading

\* a confirmation was rejected: its error is shown, nothing is pending and
\* both buttons of the Verify page are enabled again
C23_Witness ==
    /\ vf.mounted /\ pending = <<>>
    /\ vf.error \in {ServiceMessage, VerifyDefault}
    /\ ~vf.loading /\ ~vf.resendLoading

====
